---- MODULE Spec2Model ----
(***************************************************************************)
(* Model of the chat client of jorge-robledo11/chatbot-rag.                *)
(*                                                                         *)
(*  - the chat view (fetchCHAT, loadAttachment, cleanChat, onMounted)      *)
(*    and the message list it drives (addMessage, cleanMessages);          *)
(*  - the content block parser of the assistant message (processMessage    *)
(*    with its regex and typeHandlers).                                    *)
(*                                                                         *)
(* Strings the code inspects (session identifiers, raw messages) are       *)
(* sequences, so that startsWith, slice and trim are computed; strings the *)
(* code only carries around (queries, replies) are opaque TLA+ strings.    *)
(***************************************************************************)
EXTENDS Integers, Sequences, FiniteSets, TLC

VARIABLES
    mounted,        \* the chat view's onMounted hook has run
    session_id,     \* localStorage key "session_id": <<>> absent, <<s>> holding s
    messages,       \* ContentChat's messages ref
    inflight,       \* chat requests awaiting the backend (api.requestCHAT)
    nextReq,        \* number of user actions (sends, uploads) so far
    nextRnd,        \* number of Math.random() ids drawn so far
    clears,         \* number of clear actions so far
    sent,           \* history: the chat requests issued, in order
    postClearSuccess, \* history: a request sent after the last clear has succeeded
    pendingSids,    \* history: session ids assigned by replies since the last send or clear
    lastAssigned,   \* history: session id of the last reply carrying one, if prefixed
    failedUploads,  \* history: the uploads whose request failed
    lastOp,         \* history: the handler that ran last
    selectedVote,   \* IAMessage's selectedVote ref of each message voted on, by id
    voteCalls,      \* history: the calls api.requestVote(id, rate) made, in order
    raw,            \* parser: props.msg.text of the assistant message
    extractedContent, \* parser: the extractedContent ref
    spans,          \* parser history: source span of each block pushed
    thrown,         \* parser: processMessage ended by an exception
    parsed,         \* parser: processMessage has run
    runs,           \* parser: number of runs of processMessage on this instance
    firstRun,       \* parser history: extractedContent after the first run
    humanText,      \* HumanMessage: props.msg.text
    textaudio,      \* HumanMessage: the transcript ref
    urlaudio,       \* HumanMessage: the playback URL ref, <<>> when undefined
    messageHtml,    \* HumanMessage: the rendered text ref
    isMarkdown,     \* HumanMessage: the text was rendered as markdown
    humanMounted,   \* HumanMessage: its onMounted hook has run
    docName,        \* Doc: the file name shown, <<>> before the card is rendered
    messageText     \* InputChat: the text in the input box

vars == <<mounted, session_id, messages, inflight, nextReq, nextRnd, clears,
          sent, postClearSuccess, pendingSids, lastAssigned, failedUploads,
          lastOp, selectedVote, voteCalls, raw, extractedContent, spans, thrown, parsed,
          runs, firstRun, humanText, textaudio, urlaudio, messageHtml,
          isMarkdown, humanMounted, docName, messageText>>

chatVars == <<mounted, session_id, messages, inflight, nextReq, nextRnd,
              clears, sent, postClearSuccess, pendingSids, lastAssigned,
              failedUploads, lastOp, selectedVote, voteCalls>>

voteVars == <<selectedVote, voteCalls>>

parseVars == <<raw, extractedContent, spans, thrown, parsed, runs, firstRun>>

humanVars == <<humanText, textaudio, urlaudio, messageHtml, isMarkdown,
               humanMounted, docName>>

inputVars == <<messageText>>

----------------------------------------------------------------------------
(* Bounds *)

MaxRequests == 3
MaxClears == 2

----------------------------------------------------------------------------
(* Strings as sequences of characters *)

SessPrefix == <<"s", "e", "s", "s", "_">>

startsWith(s, p) == Len(s) >= Len(p) /\ SubSeq(s, 1, Len(p)) = p

Null == <<>>
Some(s) == <<s>>

\* JavaScript truthiness of a value read from storage or from a reply:
\* null/undefined and the empty string are falsy.
Truthy(opt) == opt # Null /\ opt[1] # <<>>

SidA == SessPrefix \o <<"a">>
SidB == SessPrefix \o <<"b">>
SidForeign == <<"x", "y">>
SidShort == <<"s", "e", "s", "s">>

\* What another page or an earlier version may have left in storage.
StoredValues == {Null, Some(SidA), Some(SidForeign), Some(SidShort), Some(<<>>)}

\* What a reply's session_id field may hold.
ReplySids == {Null, Some(SidA), Some(SidB), Some(SidForeign), Some(<<>>)}

Queries == {"hola"}
FileNames == {"report.pdf"}

GreetingText == "greeting"
ErrorText == "error"
ResponseText == "response"

----------------------------------------------------------------------------
(* ContentChat: the message list *)

\* Array.prototype.pop: removes the last element, a no-op on the empty array.
Pop(s) == IF s = <<>> THEN s ELSE SubSeq(s, 1, Len(s) - 1)

\* A message object.  Fields the code leaves undefined are FALSE / 0.
\* uid is history only: the user action the message belongs to (0: greeting).
Msg(id, isUser, isLoading, isError, isFirst, text, uid) ==
    [id |-> id, isUser |-> isUser, isLoading |-> isLoading,
     isError |-> isError, isFirst |-> isFirst, text |-> text, uid |-> uid]

handleUserMessage(msgs, isLoading, newMessage) ==
    IF isLoading
    THEN Append(msgs, Msg(0, TRUE, TRUE, FALSE, FALSE, "procesando audio...",
                          newMessage.uid))
    ELSE LET kept == IF msgs # <<>> /\ msgs[Len(msgs)].isUser
                     THEN Pop(msgs) ELSE msgs
         IN  Append(kept, Msg(Len(kept) + 1, TRUE, FALSE, FALSE, FALSE,
                              newMessage.text, newMessage.uid))

\* Mutant of handleBotMessage: isFirst is decided after the pop.
handleBotMessage_FirstAfterPop(msgs, isLoading, newMessage) ==
    IF isLoading
    THEN Append(msgs, Msg(0, FALSE, TRUE, FALSE, FALSE, "", newMessage.uid))
    ELSE Append(Pop(msgs), [newMessage EXCEPT !.isFirst = (Len(Pop(msgs)) = 0)])

\* handleBotMessage: a placeholder is pushed; any other message gets
\* isFirst from the length of the list, then the last message is popped
\* and the new one pushed.
handleBotMessage(msgs, isLoading, newMessage) ==
    IF isLoading
    THEN Append(msgs, Msg(0, FALSE, TRUE, FALSE, FALSE, "", newMessage.uid))
    ELSE Append(Pop(msgs), [newMessage EXCEPT !.isFirst = (Len(msgs) = 0)])

addMessage(msgs, isUser, isLoading, newMessage) ==
    IF isUser
    THEN handleUserMessage(msgs, isLoading, newMessage)
    ELSE handleBotMessage(msgs, isLoading, newMessage)

\* A bot message as the chat view builds it; Math.random() is a fresh value
\* of [0,1), modelled by a fresh non-positive integer (user ids are >= 1).
BotMessage(rnd, text, isError, uid) ==
    Msg(0 - rnd, FALSE, FALSE, isError, FALSE, text, uid)

Greeting(rnd) == BotMessage(rnd, GreetingText, FALSE, 0)

cleanMessages(msgs, rnd) ==
    IF Len(msgs) > 1
    THEN addMessage(<<>>, FALSE, FALSE, Greeting(rnd))
    ELSE msgs

----------------------------------------------------------------------------
(* The chat view *)

Op(op, req, sid) == [op |-> op, req |-> req, sid |-> sid]

\* A new HumanMessage instance showing a text of texts: the refs as the
\* script creates them.
HumanStart(texts) ==
    /\ humanText \in texts
    /\ textaudio = <<>>
    /\ urlaudio = Some(<<>>)
    /\ messageHtml = [plain |-> <<>>]
    /\ isMarkdown = FALSE
    /\ humanMounted = FALSE
    /\ docName = Null

Init ==
    /\ messageText = <<>>
    /\ HumanStart({<<>>})
    /\ mounted = FALSE
    /\ session_id \in StoredValues
    /\ messages = <<>>
    /\ inflight = {}
    /\ nextReq = 0
    /\ nextRnd = 0
    /\ clears = 0
    /\ sent = <<>>
    /\ postClearSuccess = FALSE
    /\ pendingSids = {}
    /\ lastAssigned = Null
    /\ failedUploads = {}
    /\ lastOp = Op("init", 0, Null)
    /\ selectedVote = <<>>
    /\ voteCalls = <<>>
    /\ raw = <<>>
    /\ extractedContent = <<>>
    /\ spans = <<>>
    /\ thrown = FALSE
    /\ parsed = FALSE
    /\ runs = 0
    /\ firstRun = <<>>

onMounted ==
    /\ ~mounted
    /\ mounted' = TRUE
    /\ session_id' = IF Truthy(session_id) /\ ~startsWith(session_id[1], SessPrefix)
                     THEN Null ELSE session_id
    /\ messages' = addMessage(messages, FALSE, FALSE, Greeting(nextRnd + 1))
    /\ nextRnd' = nextRnd + 1
    /\ lastOp' = Op("mount", 0, Null)
    /\ UNCHANGED <<inflight, nextReq, clears, sent, postClearSuccess,
                   pendingSids, lastAssigned, failedUploads>>
    /\ UNCHANGED voteVars
    /\ UNCHANGED <<parseVars, humanVars, inputVars>>

\* Mutant of RequestData: the prefix test is dropped.
RequestData_NoPrefixTest(msg, stored) ==
    [query |-> msg,
     session_id |-> IF Truthy(stored) THEN stored ELSE Null]

\* The body of the request fetchCHAT builds: session_id is included only
\* when the stored value is truthy and starts with 'sess_'.
RequestData(msg, stored) ==
    [query |-> msg,
     session_id |-> IF Truthy(stored) /\ startsWith(stored[1], SessPrefix)
                    THEN stored ELSE Null]

\* fetchCHAT(msg) up to its await; the input box is left to the caller.
fetchCHAT(msg) ==
    /\ mounted
    /\ nextReq < MaxRequests
    /\ LET r == nextReq + 1
           u == [text |-> msg, uid |-> r]
           m1 == addMessage(messages, TRUE, FALSE, u)
           m2 == addMessage(m1, FALSE, TRUE, u)
           data == RequestData(msg, session_id)
           rec == [req |-> r, data |-> data, stored |-> session_id,
                   epoch |-> clears, expect |-> pendingSids,
                   assigned |-> lastAssigned]
       IN  /\ messages' = m2
           /\ inflight' = inflight \cup {rec}
           /\ sent' = Append(sent, rec)
           /\ nextReq' = r
           /\ lastOp' = Op("send", r, data.session_id)
    /\ pendingSids' = {}
    /\ lastAssigned' = Null
    /\ UNCHANGED <<mounted, session_id, nextRnd, clears, postClearSuccess,
                   failedUploads>>
    /\ UNCHANGED voteVars
    /\ UNCHANGED <<parseVars, humanVars>>

\* The user sends msg: UpChat({type: 'text', data: msg}) -> fetchCHAT(msg).
\* The input box that emits the message is modelled apart (sendMessage).
UpChat(msg) == fetchCHAT(msg) /\ UNCHANGED inputVars

\* Mutant of StoreSid: the reply's session_id is not persisted.
StoreSid_NotPersisted(stored, sid) == stored

\* if (result.session_id) localStorage.setItem("session_id", result.session_id)
StoreSid(stored, sid) == IF Truthy(sid) THEN sid ELSE stored

\* fetchCHAT after its await, api.requestCHAT resolved with result.
ChatReply(rec, sid) ==
    /\ rec \in inflight
    /\ inflight' = inflight \ {rec}
    /\ session_id' = StoreSid(session_id, sid)
    /\ messages' = addMessage(messages, FALSE, FALSE,
                        BotMessage(nextRnd + 1, ResponseText, FALSE, rec.req))
    /\ nextRnd' = nextRnd + 1
    /\ postClearSuccess' = (postClearSuccess \/ rec.epoch = clears)
    /\ pendingSids' = IF Truthy(sid) /\ startsWith(sid[1], SessPrefix)
                      THEN pendingSids \cup {sid} ELSE pendingSids
    /\ lastAssigned' = IF ~Truthy(sid) THEN lastAssigned
                       ELSE IF startsWith(sid[1], SessPrefix) THEN sid
                       ELSE Null
    /\ lastOp' = Op("reply", rec.req, sid)
    /\ UNCHANGED <<mounted, nextReq, clears, sent, failedUploads>>
    /\ UNCHANGED voteVars
    /\ UNCHANGED <<parseVars, humanVars, inputVars>>

\* Mutant of ChatFail: the rejected request is issued again.
ChatFail_Retry(rec) ==
    /\ rec \in inflight
    /\ sent' = Append(sent, rec)
    /\ lastOp' = Op("fail", rec.req, Null)
    /\ UNCHANGED <<mounted, session_id, messages, inflight, nextReq, nextRnd,
                   clears, postClearSuccess, pendingSids, lastAssigned,
                   failedUploads>>
    /\ UNCHANGED voteVars
    /\ UNCHANGED <<parseVars, humanVars, inputVars>>

\* fetchCHAT after its await, api.requestCHAT rejected (error or timeout).
ChatFail(rec) ==
    /\ rec \in inflight
    /\ inflight' = inflight \ {rec}
    /\ messages' = addMessage(messages, FALSE, FALSE,
                        BotMessage(nextRnd + 1, ErrorText, TRUE, rec.req))
    /\ nextRnd' = nextRnd + 1
    /\ lastOp' = Op("fail", rec.req, Null)
    /\ UNCHANGED <<mounted, session_id, nextReq, clears, sent,
                   postClearSuccess, pendingSids, lastAssigned, failedUploads>>
    /\ UNCHANGED voteVars
    /\ UNCHANGED <<parseVars, humanVars, inputVars>>

\* loadAttachment: the api module exports no requestAttachment, so the call
\* throws inside the try before anything is sent, and the catch only logs.
loadAttachment(name) ==
    /\ mounted
    /\ nextReq < MaxRequests
    /\ LET r == nextReq + 1
           u == [text |-> "file@" \o name, uid |-> r]
           m1 == addMessage(messages, TRUE, FALSE, u)
           m2 == addMessage(m1, FALSE, TRUE, u)
       IN  /\ messages' = m2
           /\ nextReq' = r
           /\ failedUploads' = failedUploads \cup {r}
           /\ lastOp' = Op("upload", r, Null)
    /\ UNCHANGED <<mounted, session_id, inflight, nextRnd, clears, sent,
                   postClearSuccess, pendingSids, lastAssigned>>
    /\ UNCHANGED voteVars
    /\ UNCHANGED <<parseVars, humanVars, inputVars>>

cleanChat ==
    /\ mounted
    /\ clears < MaxClears
    /\ messages' = cleanMessages(messages, nextRnd + 1)
    /\ nextRnd' = IF Len(messages) > 1 THEN nextRnd + 1 ELSE nextRnd
    /\ session_id' = Null
    /\ clears' = clears + 1
    /\ postClearSuccess' = FALSE
    /\ pendingSids' = {}
    /\ lastAssigned' = Null
    /\ lastOp' = Op("clear", 0, Null)
    /\ UNCHANGED <<mounted, inflight, nextReq, sent, failedUploads>>
    /\ UNCHANGED voteVars
    /\ UNCHANGED <<parseVars, humanVars, inputVars>>

\* Mutant of selectedVoteIsNull: a vote already set is not looked at.
selectedVoteIsNull_Ignored(votes, id) == TRUE

\* selectedVote.value === null, for the IAMessage instance of message id;
\* each instance starts with selectedVote = null.
selectedVoteIsNull(votes, id) == id \notin DOMAIN votes

\* The feedback buttons of a message are rendered (v-else of isLoading,
\* v-if="!msg.isFirst") and enabled (:disabled="selectedVote !== null").
CanClickVote(m) ==
    /\ ~m.isUser
    /\ ~m.isLoading
    /\ ~m.isFirst
    /\ selectedVoteIsNull(selectedVote, m.id)

\* String(props.msg.id)
JsString(x) == [string |-> x]

\* A JavaScript boolean, as against a number: true is neither 1 nor "true".
JsBoolean(b) == [boolean |-> b]

\* handlevote(vote) of the IAMessage instance showing messages[i].  The api
\* module exports no requestVote: the call throws inside the try and the
\* catch logs, so no request leaves the client.
handlevote(i, vote) ==
    /\ i \in DOMAIN messages
    /\ CanClickVote(messages[i])
    /\ LET id == messages[i].id
       IN  IF selectedVoteIsNull(selectedVote, id)
           THEN /\ selectedVote' = [x \in DOMAIN selectedVote \cup {id} |->
                                      IF x = id THEN vote ELSE selectedVote[x]]
                /\ voteCalls' = Append(voteCalls,
                                      [id |-> JsString(id), rate |-> JsBoolean(vote)])
           ELSE UNCHANGED voteVars
    /\ lastOp' = Op("vote", 0, Null)
    /\ UNCHANGED <<mounted, session_id, messages, inflight, nextReq, nextRnd,
                   clears, sent, postClearSuccess, pendingSids, lastAssigned,
                   failedUploads>>
    /\ UNCHANGED <<parseVars, humanVars, inputVars>>

Next ==
    \/ onMounted
    \/ \E msg \in Queries : UpChat(msg)
    \/ \E rec \in inflight : \E sid \in ReplySids : ChatReply(rec, sid)
    \/ \E rec \in inflight : ChatFail(rec)
    \/ \E name \in FileNames : loadAttachment(name)
    \/ cleanChat

Spec == Init /\ [][Next]_vars

\* The chat view with the feedback buttons; the session identifier plays no
\* part in voting, so storage starts empty and replies carry none.  An
\* error block gets the same buttons as a reply, so replies stand for both.
InitVote == Init /\ session_id = Null

NextVote ==
    \/ onMounted
    \/ \E msg \in Queries : UpChat(msg)
    \/ \E rec \in inflight : ChatReply(rec, Null)
    \/ cleanChat
    \/ \E i \in DOMAIN messages : \E vote \in BOOLEAN : handlevote(i, vote)

SpecVote == InitVote /\ [][NextVote]_vars

\* The chat view with every action that calls the api module: sends,
\* their replies and failures, uploads and votes.  Clearing the chat calls
\* nothing of the api module and is left out.
NextNet ==
    \/ onMounted
    \/ \E msg \in Queries : UpChat(msg)
    \/ \E rec \in inflight : ChatReply(rec, Null)
    \/ \E rec \in inflight : ChatFail(rec)
    \/ \E name \in FileNames : loadAttachment(name)
    \/ \E i \in DOMAIN messages : \E vote \in BOOLEAN : handlevote(i, vote)

SpecNet == InitVote /\ [][NextNet]_vars

\* A request in flight settles: api.requestCHAT resolves or rejects.
Settle == \E rec \in inflight : ChatReply(rec, Null) \/ ChatFail(rec)

\* The chat view under the assumption that every request eventually
\* settles: axios resolves or rejects each call, at the latest on its
\* timeout.  The number of sends is bounded, so weak fairness of Settle
\* settles every request.
NextLive ==
    \/ onMounted
    \/ \E msg \in Queries : UpChat(msg)
    \/ Settle
    \/ \E name \in FileNames : loadAttachment(name)
    \/ cleanChat

SpecLive == InitVote /\ [][NextLive]_vars /\ WF_vars(Settle)

----------------------------------------------------------------------------
(* IAMessage: the content block parser *)

(* A raw message is a sequence of tokens: a token is one character that is  *)
(* not part of a tag ("a": a word character, " " and "\n": whitespace,      *)
(* "{}": a JSON text), one code fence of three backquotes (Fence), or one   *)
(* whole tag "<kind>" or "</kind>".  Tags begin with '<', end with '>' and hold neither inside,   *)
(* so two tag occurrences never overlap and the regex sees them as units.   *)

\* Mutant of Kinds: the alternation does not list the kind map.
Kinds_WithoutMap == <<"citations", "table", "chart", "code", "doc", "image", "card">>
\* The alternation of the regex, in its order.
Kinds == <<"citations", "table", "chart", "code", "doc", "image", "card", "map">>

\* Mutant of KindSet: the regex also lists the kind foo.
KindSet_WithFoo == {Kinds[i] : i \in DOMAIN Kinds} \cup {"foo"}
KindSet == {Kinds[i] : i \in DOMAIN Kinds}

OpenTag(k) == "<" \o k \o ">"
CloseTag(k) == "</" \o k \o ">"

Fence == "[fence]"

IsSpace(tok) == tok \in {" ", "\n"}
IsWord(tok) == tok = "a"

\* String.prototype.trim
RECURSIVE TrimLeft(_)
TrimLeft(s) == IF s # <<>> /\ IsSpace(s[1]) THEN TrimLeft(Tail(s)) ELSE s

RECURSIVE TrimRight(_)
TrimRight(s) ==
    IF s # <<>> /\ IsSpace(s[Len(s)]) THEN TrimRight(SubSeq(s, 1, Len(s) - 1))
    ELSE s

Trim(s) == TrimRight(TrimLeft(s))

\* marked.parse(content.trim(), {breaks: true}): the rendering of the
\* trimmed source, kept as a value tagged with the source it renders.
cleanContent(content) == [html |-> Trim(content)]

\* Mutant of IndexFrom: the greatest such j (a greedy .* instead of .*?).
IndexFrom_Greedy(s, tok, from) ==
    LET hits == {j \in from..Len(s) : s[j] = tok}
    IN  IF hits = {} THEN 0 ELSE CHOOSE j \in hits : \A h \in hits : j >= h

\* Least j in from..Len(s) with s[j] = tok, 0 when there is none.
IndexFrom(s, tok, from) ==
    LET hits == {j \in from..Len(s) : s[j] = tok}
    IN  IF hits = {} THEN 0 ELSE CHOOSE j \in hits : \A h \in hits : j <= h

\* The regex tried at position i: an opening tag of a listed kind, the
\* shortest content, the closing tag of the same kind.  0 when no match.
MatchEnd(s, i) ==
    LET ks == {k \in KindSet : s[i] = OpenTag(k)}
    IN  IF ks = {} THEN 0
        ELSE IndexFrom(s, CloseTag(CHOOSE k \in ks : TRUE), i + 1)

MatchKind(s, i) == CHOOSE k \in KindSet : s[i] = OpenTag(k)

\* The matches of the global regex from position from on, left to right,
\* each search resuming after the previous match.
RECURSIVE Matches(_, _)
Matches(s, from) ==
    LET starts == {i \in from..Len(s) : MatchEnd(s, i) # 0}
    IN  IF starts = {} THEN <<>>
        ELSE LET i == CHOOSE x \in starts : \A y \in starts : x <= y
                 j == MatchEnd(s, i)
             IN  <<[start |-> i, end |-> j, p1 |-> MatchKind(s, i),
                    p2 |-> SubSeq(s, i + 1, j - 1)]>> \o Matches(s, j + 1)

\* The fenced-code regex, fence (\w*) \n ([\s\S]*?) fence, of the code handler: the fence, word characters, a
\* newline, the shortest body, the closing fence; tried at f.
FenceBodyStart(p2, f) ==
    IF p2[f] # Fence THEN 0
    ELSE LET nonword == {j \in (f + 1)..Len(p2) : ~IsWord(p2[j])}
         IN  IF nonword = {} THEN 0
             ELSE LET n == CHOOSE j \in nonword : \A h \in nonword : j <= h
                  IN  IF p2[n] = "\n" /\ IndexFrom(p2, Fence, n + 1) # 0
                      THEN n + 1 ELSE 0

\* Mutant of codeMatch: the fenced-code regex never matches.
codeMatch_NeverFound(p2) == [found |-> FALSE, lang |-> <<>>, body |-> <<>>]

\* codeMatch = regex.exec(p2): the leftmost match, null when there is none.
codeMatch(p2) ==
    LET fs == {f \in DOMAIN p2 : FenceBodyStart(p2, f) # 0}
    IN  IF fs = {} THEN [found |-> FALSE, lang |-> <<>>, body |-> <<>>]
        ELSE LET f == CHOOSE x \in fs : \A y \in fs : x <= y
                 b == FenceBodyStart(p2, f)
             IN  [found |-> TRUE,
                  lang |-> SubSeq(p2, f + 1, b - 2),
                  body |-> SubSeq(p2, b, IndexFrom(p2, Fence, b) - 1)]

\* The value of a field a JSON object does not have.
Undefined == "undefined"

\* The objects a chart payload can be: a variant (type), series data and
\* options, each present or not.
ChartPayloads ==
    [type : {"bar", "pie", "line", "radar", "constructor", Undefined},
     data : {"d", Undefined},
     options : {"o", Undefined}]

\* JSON.stringify of such an object: the fields it has, in order.
ChartJsonText(r) ==
    "{" \o (IF r.type = Undefined THEN "" ELSE "type:" \o r.type \o ";")
        \o (IF r.data = Undefined THEN "" ELSE "data:" \o r.data \o ";")
        \o (IF r.options = Undefined THEN "" ELSE "options:" \o r.options \o ";")
        \o "}"

JsonTexts == {ChartJsonText(r) : r \in ChartPayloads}

\* JSON.parse(p2): whitespace around one JSON text; any other content throws.
JsonOk(p2) == Len(Trim(p2)) = 1 /\ Trim(p2)[1] \in JsonTexts

\* JSON.parse(p2) when it does not throw: the object the text stands for.
JsonParse(p2) == CHOOSE r \in ChartPayloads : ChartJsonText(r) = Trim(p2)[1]

\* getChartComponent: chartComponents[chartType] || Bar.  The lookup on
\* the object literal also finds what every object inherits: for
\* "constructor" it gives the function Object, which is truthy.
getChartComponent(chartType) ==
    CASE chartType = "bar" -> "Bar"
      [] chartType = "pie" -> "Pie"
      [] chartType = "line" -> "Line"
      [] chartType = "constructor" -> "Object"
      [] OTHER -> "Bar"

\* The kinds with an entry in typeHandlers that calls JSON.parse.
JsonKinds == {"chart", "card", "map"}

\* typeHandlers[p1] throws a SyntaxError on this content.
HandlerThrows(p1, p2) == p1 \in JsonKinds /\ ~JsonOk(p2)

\* typeHandlers[p1] || generic, applied to p2 (when it does not throw).
\* The JSON text "{}" has none of the fields the handlers read.
Handler(p1, p2) ==
    CASE p1 = "code" ->
            LET cm == codeMatch(p2)
            IN  [type |-> "code",
                 value |-> cleanContent(IF cm.found THEN cm.body ELSE p2),
                 lang |-> IF cm.found THEN cm.lang ELSE <<"plain-text">>]
      [] p1 = "chart" ->
            LET chartData == JsonParse(p2)
            IN  [type |-> "chart", chartType |-> chartData.type,
                 data |-> chartData.data,
                 options |-> IF chartData.options = Undefined THEN "{}"
                             ELSE chartData.options]
      [] p1 = "card" -> [type |-> "card", value |-> Trim(p2)[1]]
      [] p1 = "map" ->
            [type |-> "map", xy |-> "undefined", ubication |-> "undefined"]
      [] OTHER -> [type |-> p1, value |-> cleanContent(p2)]

\* Mutant of Push: the block is put in front (unshift) instead of pushed.
Push_Unshift(list, block, from, to) ==
    <<[block |-> block, from |-> from, to |-> to]>> \o list

\* extractedContent.value.push(block); span is the history of its source.
Push(list, block, from, to) ==
    Append(list, [block |-> block, from |-> from, to |-> to])

TextBlock(s, from, to) ==
    [type |-> "text", value |-> cleanContent(Trim(SubSeq(s, from, to)))]

\* The replacer callbacks of messageText.replace(regex, ...) for the matches
\* ms[n..], then the tail after the last match.  lastIndex counts the tokens
\* consumed.  A throwing handler ends the run and leaves what was pushed.
RECURSIVE Replace(_, _, _, _, _)
Replace(s, ms, n, lastIndex, out) ==
    IF n > Len(ms)
    THEN [out |-> IF lastIndex < Len(s)
                  THEN Push(out, TextBlock(s, lastIndex + 1, Len(s)),
                            lastIndex + 1, Len(s))
                  ELSE out,
          thrown |-> FALSE]
    ELSE LET m == ms[n]
             offset == m.start - 1
             out1 == IF offset > lastIndex
                     THEN Push(out, TextBlock(s, lastIndex + 1, offset),
                               lastIndex + 1, offset)
                     ELSE out
         IN  IF HandlerThrows(m.p1, m.p2)
             THEN [out |-> out1, thrown |-> TRUE]
             ELSE Replace(s, ms, n + 1, m.end,
                          Push(out1, Handler(m.p1, m.p2), m.start, m.end))

\* Bounds of the parser's inputs.
MaxLen == 5

Alphabet == {"a", " ", "{}", "<doc>", "</doc>", "<chart>", "</chart>"}

RawMessages == UNION {[1..n -> Alphabet] : n \in 0..MaxLen}

InitParse ==
    /\ messageText = <<>>
    /\ HumanStart({<<>>})
    /\ mounted = TRUE
    /\ session_id = Null
    /\ messages = <<>>
    /\ inflight = {}
    /\ nextReq = 0
    /\ nextRnd = 0
    /\ clears = 0
    /\ sent = <<>>
    /\ postClearSuccess = FALSE
    /\ pendingSids = {}
    /\ lastAssigned = Null
    /\ failedUploads = {}
    /\ lastOp = Op("init", 0, Null)
    /\ selectedVote = <<>>
    /\ voteCalls = <<>>
    /\ raw \in RawMessages
    /\ extractedContent = <<>>
    /\ spans = <<>>
    /\ thrown = FALSE
    /\ parsed = FALSE
    /\ runs = 0
    /\ firstRun = <<>>

\* One call of processMessage: the blocks are pushed onto what the
\* extractedContent ref already holds (the empty array of a new instance).
RunProcessMessage ==
    LET held == [i \in DOMAIN extractedContent |->
                    [block |-> extractedContent[i],
                     from |-> spans[i].from, to |-> spans[i].to]]
        res == Replace(raw, Matches(raw, 1), 1, 0, held)
    IN  /\ extractedContent' = [i \in DOMAIN res.out |-> res.out[i].block]
        /\ spans' = [i \in DOMAIN res.out |->
                        [from |-> res.out[i].from, to |-> res.out[i].to]]
        /\ thrown' = res.thrown
        /\ firstRun' = IF runs = 0
                       THEN [i \in DOMAIN res.out |-> res.out[i].block]
                       ELSE firstRun
        /\ runs' = runs + 1

\* IAMessage's onMounted for a message that is not a placeholder.
processMessage ==
    /\ ~parsed
    /\ RunProcessMessage
    /\ parsed' = TRUE
    /\ UNCHANGED raw
    /\ UNCHANGED <<chatVars, humanVars, inputVars>>

NextParse == processMessage

SpecParse == InitParse /\ [][NextParse]_vars

\* A new IAMessage instance showing the message msgs offers.
ParseStart(msgs) ==
    /\ messageText = <<>>
    /\ HumanStart({<<>>})
    /\ mounted = TRUE
    /\ session_id = Null
    /\ messages = <<>>
    /\ inflight = {}
    /\ nextReq = 0
    /\ nextRnd = 0
    /\ clears = 0
    /\ sent = <<>>
    /\ postClearSuccess = FALSE
    /\ pendingSids = {}
    /\ lastAssigned = Null
    /\ failedUploads = {}
    /\ lastOp = Op("init", 0, Null)
    /\ selectedVote = <<>>
    /\ voteCalls = <<>>
    /\ raw \in msgs
    /\ extractedContent = <<>>
    /\ spans = <<>>
    /\ thrown = FALSE
    /\ parsed = FALSE
    /\ runs = 0
    /\ firstRun = <<>>

SeqsUpTo(alphabet, n) == UNION {[1..k -> alphabet] : k \in 0..n}

\* Messages with tags of a kind the regex does not list.
FooAlphabet == {"a", " ", "<foo>", "</foo>", "<doc>", "</doc>"}

InitParseFoo == ParseStart(SeqsUpTo(FooAlphabet, MaxLen))

SpecParseFoo == InitParseFoo /\ [][NextParse]_vars

\* Bounds of the messages made of text, one region, text.
MaxText == 2
MaxContent == 2

\* The kinds a backend reply may carry.
ReplyKinds ==
    {"citations", "table", "code", "chart", "card", "doc", "map", "image"}

\* Plain text that is not empty after trim().
NonBlankTexts ==
    {t \in SeqsUpTo({"a", " "}, MaxText) : Trim(t) # <<>>}

\* The contents of a region of kind k; those of chart, card and map are
\* JSON texts.
ContentsOf(k) ==
    {c \in SeqsUpTo({"a", " ", "{}"}, MaxContent) :
        k \in JsonKinds => JsonOk(c)}

\* Messages made of text, one region of a kind, text.
KindMessages ==
    {pre \o <<OpenTag(k)>> \o c \o <<CloseTag(k)>> \o post :
        <<pre, k, c, post>> \in
            {x \in NonBlankTexts \X ReplyKinds
                    \X SeqsUpTo({"a", " ", "{}"}, MaxContent) \X NonBlankTexts :
                x[3] \in ContentsOf(x[2])}}

InitKinds == ParseStart(KindMessages)

SpecKinds == InitKinds /\ [][NextParse]_vars

\* Messages made of text or none, one chart region holding a JSON text
\* with or without a space before it, text or none.
ChartMessages ==
    {x[1] \o <<OpenTag("chart")>> \o x[2] \o <<x[3]>>
          \o <<CloseTag("chart")>> \o x[4] :
        x \in SeqsUpTo({"a"}, MaxText) \X {<<>>, <<" ">>} \X JsonTexts
                \X SeqsUpTo({"a"}, MaxText)}

InitChart == ParseStart(ChartMessages)

SpecChart == InitChart /\ [][NextParse]_vars

\* Bound of the content of a code region.
MaxCode == 5

\* Messages made of one code region.
CodeMessages ==
    {<<OpenTag("code")>> \o c \o <<CloseTag("code")>> :
        c \in SeqsUpTo({Fence, "a", "\n", " "}, MaxCode)}

InitCode == ParseStart(CodeMessages)

SpecCode == InitCode /\ [][NextParse]_vars

-----------------------------------------------------------------------------
(* HumanMessage: the local echo of what the user sent *)

\* String.prototype.split(sep): the pieces between the separators.
RECURSIVE Split(_, _)
Split(s, sep) ==
    LET hits == {j \in DOMAIN s : s[j] = sep}
    IN  IF hits = {} THEN <<s>>
        ELSE LET i == CHOOSE j \in hits : \A h \in hits : j <= h
             IN  <<SubSeq(s, 1, i - 1)>> \o Split(SubSeq(s, i + 1, Len(s)), sep)

\* Array.prototype.shift and pop: the element taken.
Shift(a) == a[1]
PopLast(a) == a[Len(a)]

\* Mutant of getFileType: the segment after the last '@' instead of the
\* one before the first.
getFileType_Last(fileName) == PopLast(Split(fileName, "@"))

\* fileName.split('@').shift()
getFileType(fileName) == Shift(Split(fileName, "@"))

\* props.msg.text.split('@').pop().split('#')
AudioPieces(text) == Split(PopLast(Split(text, "@")), "#")

\* getAudio: the values given to textaudio and urlaudio.  audio.pop() on
\* the array left empty by shift() is undefined.
getAudio(text) ==
    LET audio == AudioPieces(text)
        rest == Tail(audio)
    IN  [textaudio |-> Shift(audio),
         urlaudio |-> IF rest = <<>> THEN Null ELSE Some(PopLast(rest))]

\* The characters of the markdown pattern the texts can hold, and '\n'.
IsMarkdownChar(tok) == tok \in {"#", "\n"}

\* HumanMessage's processMessage: the values given to messageHtml and
\* isMarkdown; they are left alone for an audio or file payload.
humanProcessMessage(text, html, md) ==
    IF getFileType(text) # <<"audio">> /\ getFileType(text) # <<"file">>
    THEN IF \A j \in DOMAIN text : ~IsMarkdownChar(text[j])
         THEN [messageHtml |-> [plain |-> text], isMarkdown |-> FALSE]
         ELSE [messageHtml |-> [html |-> text], isMarkdown |-> TRUE]
    ELSE [messageHtml |-> html, isMarkdown |-> md]

\* HumanMessage's onMounted: getAudio() then processMessage().
humanOnMounted ==
    /\ ~humanMounted
    /\ humanMounted' = TRUE
    /\ textaudio' = getAudio(humanText).textaudio
    /\ urlaudio' = getAudio(humanText).urlaudio
    /\ messageHtml'
         = humanProcessMessage(humanText, messageHtml, isMarkdown).messageHtml
    /\ isMarkdown'
         = humanProcessMessage(humanText, messageHtml, isMarkdown).isMarkdown
    /\ UNCHANGED <<humanText, docName>>
    /\ UNCHANGED <<chatVars, parseVars, inputVars>>

\* Bound of the texts of a HumanMessage.
MaxPayload == 5

\* The texts a user message can hold: the word audio, separators, text.
Payloads == SeqsUpTo({"audio", "@", "#", "x"}, MaxPayload)

InitAudio ==
    /\ messageText = <<>>
    /\ HumanStart(Payloads)
    /\ mounted = TRUE
    /\ session_id = Null
    /\ messages = <<>>
    /\ inflight = {}
    /\ nextReq = 0
    /\ nextRnd = 0
    /\ clears = 0
    /\ sent = <<>>
    /\ postClearSuccess = FALSE
    /\ pendingSids = {}
    /\ lastAssigned = Null
    /\ failedUploads = {}
    /\ lastOp = Op("init", 0, Null)
    /\ selectedVote = <<>>
    /\ voteCalls = <<>>
    /\ raw = <<>>
    /\ extractedContent = <<>>
    /\ spans = <<>>
    /\ thrown = FALSE
    /\ parsed = FALSE
    /\ runs = 0
    /\ firstRun = <<>>

NextAudio == humanOnMounted

SpecAudio == InitAudio /\ [][NextAudio]_vars

\* The v-if chain of the HumanMessage template: the branch shown.
HumanView(text) ==
    IF getFileType(text) = <<"file">> THEN "file"
    ELSE IF getFileType(text) = <<"audio">> THEN "audio"
    ELSE "text"

\* The texts a user message can hold: the words audio and file,
\* separators, a markdown character, text.
HumanTexts == SeqsUpTo({"audio", "file", "@", "#", "x"}, MaxPayload)

InitHuman ==
    /\ messageText = <<>>
    /\ HumanStart(HumanTexts)
    /\ mounted = TRUE
    /\ session_id = Null
    /\ messages = <<>>
    /\ inflight = {}
    /\ nextReq = 0
    /\ nextRnd = 0
    /\ clears = 0
    /\ sent = <<>>
    /\ postClearSuccess = FALSE
    /\ pendingSids = {}
    /\ lastAssigned = Null
    /\ failedUploads = {}
    /\ lastOp = Op("init", 0, Null)
    /\ selectedVote = <<>>
    /\ voteCalls = <<>>
    /\ raw = <<>>
    /\ extractedContent = <<>>
    /\ spans = <<>>
    /\ thrown = FALSE
    /\ parsed = FALSE
    /\ runs = 0
    /\ firstRun = <<>>

SpecHuman == InitHuman /\ [][NextAudio]_vars

-----------------------------------------------------------------------------
(* Doc: the card of an attached file *)

\* fileName.split('@').pop().split('/').pop().split('.').shift()
getFileName(fileName) ==
    Shift(Split(PopLast(Split(PopLast(Split(fileName, "@")), "/")), "."))

\* The Doc card rendered inside a HumanMessage whose text is a file
\* payload: <Doc :docPayload="msg.text" />, showing getFileName(docPayload).
\* The card is rendered with its parent's template, whichever of the
\* parent's hooks have run.
DocRender ==
    /\ HumanView(humanText) = "file"
    /\ docName = Null
    /\ docName' = Some(getFileName(humanText))
    /\ UNCHANGED <<humanText, textaudio, urlaudio, messageHtml, isMarkdown,
                   humanMounted>>
    /\ UNCHANGED <<chatVars, parseVars, inputVars>>

\* Bound of the path of a file payload.
MaxPath == 5

\* File payloads: file@ and a path of directory separators, dots and text.
FilePayloads ==
    {<<"file", "@">> \o path : path \in SeqsUpTo({"/", ".", "x"}, MaxPath)}

InitDoc ==
    /\ messageText = <<>>
    /\ HumanStart(FilePayloads)
    /\ mounted = TRUE
    /\ session_id = Null
    /\ messages = <<>>
    /\ inflight = {}
    /\ nextReq = 0
    /\ nextRnd = 0
    /\ clears = 0
    /\ sent = <<>>
    /\ postClearSuccess = FALSE
    /\ pendingSids = {}
    /\ lastAssigned = Null
    /\ failedUploads = {}
    /\ lastOp = Op("init", 0, Null)
    /\ selectedVote = <<>>
    /\ voteCalls = <<>>
    /\ raw = <<>>
    /\ extractedContent = <<>>
    /\ spans = <<>>
    /\ thrown = FALSE
    /\ parsed = FALSE
    /\ runs = 0
    /\ firstRun = <<>>

NextDoc == humanOnMounted \/ DocRender

SpecDoc == InitDoc /\ [][NextDoc]_vars

-----------------------------------------------------------------------------
(* InputChat: the input box *)

\* Bound of the text typed into the box.
MaxInput == 3

\* Mutant of canSend: the box may always send.
canSend_Always(text) == TRUE

\* canSend: messageText.value.trim().length > 0
canSend(text) == Len(Trim(text)) > 0

\* v-model: the user types one more character.
typeText(c) ==
    /\ Len(messageText) < MaxInput
    /\ messageText' = Append(messageText, c)
    /\ lastOp' = Op("type", 0, Null)
    /\ UNCHANGED <<mounted, session_id, messages, inflight, nextReq, nextRnd,
                   clears, sent, postClearSuccess, pendingSids, lastAssigned,
                   failedUploads>>
    /\ UNCHANGED voteVars
    /\ UNCHANGED <<parseVars, humanVars>>

\* sendMessage, from the Enter key or the send button: when canSend, emit
\* the trimmed text, which the chat view hands to fetchCHAT, and empty the
\* box; otherwise do nothing.
sendMessage ==
    IF canSend(messageText)
    THEN /\ fetchCHAT(Trim(messageText))
         /\ messageText' = <<>>
    ELSE UNCHANGED vars

NextInput ==
    \/ onMounted
    \/ \E c \in {"a", " "} : typeText(c)
    \/ sendMessage

SpecInput == InitVote /\ [][NextInput]_vars

-----------------------------------------------------------------------------

\* Bound on the calls of processMessage on one instance.
MaxRuns == 2

\* processMessage() applied again to the same instance and message.  The
\* component itself calls it once, from onMounted; nothing in the function
\* empties extractedContent before it pushes.
reprocessMessage ==
    /\ parsed
    /\ runs < MaxRuns
    /\ RunProcessMessage
    /\ UNCHANGED <<raw, parsed>>
    /\ UNCHANGED <<chatVars, humanVars, inputVars>>

NextRerun == processMessage \/ reprocessMessage

SpecRerun == InitKinds /\ [][NextRerun]_vars

----------------------------------------------------------------------------
(* Properties of the chat view *)

Prefixed(opt) == Truthy(opt) /\ startsWith(opt[1], SessPrefix)

Settled(m) == ~m.isLoading

Has(msgs, m) == \E j \in DOMAIN msgs : msgs[j] = m

\* Every settled message of the list before the step is in the list after it.
SettledKept == \A i \in DOMAIN messages :
                  Settled(messages[i]) => Has(messages', messages[i])

\* C4: a reply or an error replaces a pending placeholder and nothing else;
\* no settled message (user message, reply, error block, greeting) leaves
\* the list except by the clear action.
C4_SettledOnlyRemovedByClear ==
    [][ /\ (lastOp'.op # "clear" => SettledKept)
        /\ (lastOp'.op \in {"reply", "fail"} =>
               messages # <<>> /\ messages[Len(messages)].isLoading) ]_vars

\* C5: a chat request carries session_id only if the value stored when it
\* was sent is present and starts with 'sess_', and then carries that value;
\* otherwise it is sent without one.
C5_RequestSidPrefixed ==
    \A i \in DOMAIN sent :
        /\ (sent[i].data.session_id # Null => Prefixed(sent[i].data.session_id))
        /\ sent[i].data.session_id =
               (IF Prefixed(sent[i].stored) THEN sent[i].stored ELSE Null)

\* C5 witness: one request was sent over a stored value without the prefix
\* and carries none, another over a prefixed value and carries it.
C5_Witness ==
    /\ \E i \in DOMAIN sent :
          Truthy(sent[i].stored) /\ ~Prefixed(sent[i].stored)
          /\ sent[i].data.session_id = Null
    /\ \E i \in DOMAIN sent :
          Prefixed(sent[i].stored) /\ sent[i].data.session_id = sent[i].stored

\* C6: once the view is mounted the stored session identifier is absent or
\* starts with 'sess_'.
C6_StoredSidPrefixed ==
    mounted => (session_id = Null \/ Prefixed(session_id))

\* The first request sent after a clear: no earlier request has its epoch.
FirstAfterClear(i) ==
    sent[i].epoch > 0 /\ \A j \in 1..(i - 1) : sent[j].epoch # sent[i].epoch

\* C7: after a clear the stored session identifier stays absent until a
\* request sent after the clear succeeds, and the first request sent after
\* a clear carries no session_id.
C7_ClearedUntilNewSuccess ==
    /\ (clears > 0 /\ ~postClearSuccess => session_id = Null)
    /\ \A i \in DOMAIN sent :
          FirstAfterClear(i) => sent[i].data.session_id = Null

\* C8 as stated: right after a reply carrying a prefixed session_id s the
\* storage holds s, and the next request sent with no clear in between
\* carries s, for every such reply handled since the previous send.
C8_NextRequestCarriesAssigned ==
    /\ (lastOp.op = "reply" /\ Prefixed(lastOp.sid) => session_id = lastOp.sid)
    /\ \A i \in DOMAIN sent :
          \A s \in sent[i].expect : sent[i].data.session_id = s

\* C8 amended: right after a reply carrying a prefixed session_id s the
\* storage holds s, and the next request carries s when neither a clear nor
\* a later reply carrying a session_id came in between.
C8_NextRequestCarriesLastAssigned ==
    /\ (lastOp.op = "reply" /\ Prefixed(lastOp.sid) => session_id = lastOp.sid)
    /\ \A i \in DOMAIN sent :
          sent[i].assigned # Null => sent[i].data.session_id = sent[i].assigned

\* C8 witness: a request sent after two replies that assigned different
\* session ids carries the later one.
C8_Witness ==
    \E i \in DOMAIN sent :
        /\ Cardinality(sent[i].expect) = 2
        /\ sent[i].assigned # Null
        /\ sent[i].data.session_id = sent[i].assigned

ErrorBlocksOf(msgs, r) ==
    {j \in DOMAIN msgs : msgs[j].isError /\ msgs[j].uid = r}

\* C9: a failed chat request adds exactly one error block for that request,
\* leaves the stored session identifier and every settled message as they
\* were, and re-issues nothing.
C9_FailureAddsOneErrorOnly ==
    [][ lastOp'.op = "fail" =>
          /\ Cardinality(ErrorBlocksOf(messages', lastOp'.req)) = 1
          /\ ErrorBlocksOf(messages, lastOp'.req) = {}
          /\ session_id' = session_id
          /\ SettledKept
          /\ inflight' \subseteq inflight
          /\ sent' = sent ]_vars

\* C10: after a failed attachment upload the list holds an error block for
\* it and no pending placeholder of it remains.
C10_UploadFailureShowsError ==
    \A r \in failedUploads :
        /\ ErrorBlocksOf(messages, r) # {}
        /\ \A j \in DOMAIN messages :
              ~(messages[j].isLoading /\ messages[j].uid = r)

IsGreeting(m) == ~m.isUser /\ ~m.isLoading /\ ~m.isError /\ m.text = GreetingText

\* C11: right after the clear action the message list consists of the seed
\* greeting alone.
C11_ClearLeavesGreetingOnly ==
    lastOp.op = "clear" => Len(messages) = 1 /\ IsGreeting(messages[1])

CallsFor(calls, id) == {k \in DOMAIN calls : calls[k].id = JsString(id)}

\* C12: a vote once set for a message never changes, whatever is clicked
\* later, and at most one vote submission is made per message.
C12_VoteImmutable ==
    [][ /\ \A id \in DOMAIN selectedVote :
              id \in DOMAIN selectedVote' /\ selectedVote'[id] = selectedVote[id]
        /\ \A id \in DOMAIN selectedVote' :
              Cardinality(CallsFor(voteCalls', id)) <= 1 ]_vars

\* C12 witness: two messages have been voted on, one up and one down, and
\* the first vote is still as it was set.
C12_Witness ==
    /\ Len(voteCalls) = 2
    /\ voteCalls[1].rate # voteCalls[2].rate
    /\ \E id \in DOMAIN selectedVote :
          /\ voteCalls[1].id = JsString(id)
          /\ JsBoolean(selectedVote[id]) = voteCalls[1].rate

----------------------------------------------------------------------------
(* Properties of the content block parser *)

RECURSIVE Flatten(_)
Flatten(ss) == IF ss = <<>> THEN <<>> ELSE ss[1] \o Flatten(Tail(ss))

\* The source span of block i, untrimmed.
SpanText(i) == SubSeq(raw, spans[i].from, spans[i].to)

\* The source span of block i without the tags of a tagged region.
SpanInner(i) ==
    IF extractedContent[i].type = "text" THEN SpanText(i)
    ELSE SubSeq(raw, spans[i].from + 1, spans[i].to - 1)

\* The positions of the opening and closing tags of the matched regions.
TagPositions ==
    LET ms == Matches(raw, 1)
    IN  {ms[n].start : n \in DOMAIN ms} \cup {ms[n].end : n \in DOMAIN ms}

RECURSIVE Without(_, _, _)
Without(s, drop, i) ==
    IF i > Len(s) THEN <<>>
    ELSE (IF i \in drop THEN <<>> ELSE <<s[i]>>) \o Without(s, drop, i + 1)

\* C1: the source spans of the blocks are contiguous, do not overlap and
\* cover the message: concatenated in order they give the message, and
\* with the tags of the matched regions removed they give the message
\* without those tags.
C1_SpansCoverMessage ==
    parsed =>
        /\ \A i \in DOMAIN spans :
              spans[i].from = (IF i = 1 THEN 1 ELSE spans[i - 1].to + 1)
        /\ Flatten([i \in DOMAIN spans |-> SpanText(i)]) = raw
        /\ Flatten([i \in DOMAIN spans |-> SpanInner(i)])
              = Without(raw, TagPositions, 1)

\* C2: blocks come in the order of their source spans: an earlier block's
\* span starts before a later block's, and each block is the tagged region
\* or the text gap found at its span.
C2_BlocksInSourceOrder ==
    parsed =>
        /\ \A i, j \in DOMAIN spans : i < j => spans[i].from < spans[j].from
        /\ \A i \in DOMAIN spans :
              LET ms == Matches(raw, 1)
                  hit == {n \in DOMAIN ms : ms[n].start = spans[i].from}
              IN  IF hit = {} THEN extractedContent[i].type = "text"
                  ELSE \A n \in hit : /\ extractedContent[i].type = ms[n].p1
                                      /\ spans[i].to = ms[n].end

\* C2 witness: a text gap, a tagged region and a text gap were parsed into
\* three blocks.
C2_Witness ==
    /\ parsed
    /\ ~thrown
    /\ Len(extractedContent) = 3
    /\ extractedContent[1].type = "text"
    /\ extractedContent[2].type = "doc"
    /\ extractedContent[3].type = "text"

\* The untagged spans: before each match and after the last one.
Gaps ==
    LET ms == Matches(raw, 1)
    IN  {[from |-> (IF n = 1 THEN 1 ELSE ms[n - 1].end + 1),
          to |-> ms[n].start - 1] : n \in DOMAIN ms}
        \cup {[from |-> (IF ms = <<>> THEN 1 ELSE ms[Len(ms)].end + 1),
               to |-> Len(raw)]}

\* C3: an untagged span yields a text block if and only if it is non-empty
\* after trimming whitespace.
C3_TextBlockIffNonBlank ==
    parsed =>
        \A g \in Gaps :
            (\E i \in DOMAIN spans : /\ spans[i] = g
                                     /\ extractedContent[i].type = "text")
            <=> Trim(SubSeq(raw, g.from, g.to)) # <<>>

\* C13 as stated: a region of an unlisted kind, <foo>bar</foo>, yields a
\* generic block of kind foo whose value is the rendered content.
C13_UnknownTagYieldsGenericBlock ==
    parsed =>
        \A i, j \in DOMAIN raw :
            (i < j /\ raw[i] = "<foo>" /\ raw[j] = "</foo>"
               /\ \A k \in (i + 1)..(j - 1) : raw[k] \in {"a", " "}
               /\ \A h \in 1..(i - 1) : raw[h] \in {"a", " "})
            => \E b \in DOMAIN extractedContent :
                  /\ extractedContent[b].type = "foo"
                  /\ extractedContent[b].value
                        = cleanContent(SubSeq(raw, i + 1, j - 1))

\* C13 amended: a tag of a kind the regex does not list is never matched:
\* no block has that kind, no tagged block starts or ends at such a tag,
\* and a message without listed tags, such as <foo>bar</foo>, is one text
\* block holding the rendering of the whole message.
C13_UnknownTagStaysText ==
    parsed =>
        /\ \A b \in DOMAIN extractedContent :
              /\ extractedContent[b].type # "foo"
              /\ extractedContent[b].type # "text" =>
                    /\ raw[spans[b].from] \notin {"<foo>", "</foo>"}
                    /\ raw[spans[b].to] \notin {"<foo>", "</foo>"}
        /\ (raw # <<>> /\ \A k \in DOMAIN raw : raw[k] \notin {"<doc>", "</doc>"})
              => extractedContent = <<[type |-> "text", value |-> cleanContent(raw)]>>

\* C13 witness: the message <foo>a</foo> was parsed into one text block.
C13_Witness ==
    /\ parsed
    /\ raw = <<"<foo>", "a", "</foo>">>
    /\ Len(extractedContent) = 1
    /\ extractedContent[1].type = "text"

\* The matched regions whose chart, card or map content is not parseable.
Malformed ==
    LET ms == Matches(raw, 1)
    IN  {n \in DOMAIN ms : HandlerThrows(ms[n].p1, ms[n].p2)}

\* C14: when the content of a chart, card or map region is not parseable,
\* no error escapes processMessage, and either no block of the message is
\* produced or every other region and every non-blank text gap of the
\* message has its block; never a partial prefix.
C14_MalformedPolicyLocal ==
    (parsed /\ Malformed # {}) =>
        /\ ~thrown
        /\ \/ extractedContent = <<>>
           \/ LET ms == Matches(raw, 1)
              IN  /\ \A n \in DOMAIN ms \ Malformed :
                        \E b \in DOMAIN spans :
                            /\ spans[b].from = ms[n].start
                            /\ spans[b].to = ms[n].end
                            /\ extractedContent[b].type = ms[n].p1
                  /\ \A g \in Gaps :
                        (g.from <= g.to /\ Trim(SubSeq(raw, g.from, g.to)) # <<>>)
                        => \E b \in DOMAIN spans :
                              /\ spans[b].from = g.from
                              /\ spans[b].to = g.to
                              /\ extractedContent[b].type = "text"

\* The tagged blocks.
Tagged == {b \in DOMAIN extractedContent : extractedContent[b].type # "text"}

\* C15: regions are matched flat and non-greedily, left to right: a block
\* of kind k spans from an opening tag <k> to the first closing tag </k>
\* after it, whatever other tags lie in between; the spans of the blocks
\* do not overlap; the content of a region is taken as it stands, its
\* tags are not parsed again; and every opening tag with a closing tag of
\* its kind after it lies in a region (it opens one or is content of one).
C15_FlatNonGreedy ==
    parsed =>
        /\ \A b \in Tagged :
              LET k == extractedContent[b].type
              IN  /\ raw[spans[b].from] = OpenTag(k)
                  /\ raw[spans[b].to] = CloseTag(k)
                  /\ spans[b].from < spans[b].to
                  /\ \A h \in (spans[b].from + 1)..(spans[b].to - 1) :
                        raw[h] # CloseTag(k)
                  /\ k = "doc" =>
                        extractedContent[b].value = cleanContent(SpanInner(b))
        /\ \A b, c \in DOMAIN spans : b < c => spans[b].to < spans[c].from
        /\ ~thrown =>
              \A i \in DOMAIN raw : \A k \in KindSet :
                  (raw[i] = OpenTag(k)
                     /\ \E j \in (i + 1)..Len(raw) : raw[j] = CloseTag(k))
                  => \E b \in Tagged : spans[b].from <= i /\ i <= spans[b].to

\* C15 witness: in <doc></chart><doc></doc></doc> the region ends at the
\* first </doc>; the </chart> and the nested <doc> are its content and the
\* second </doc> is left as text.
C15_Witness ==
    /\ parsed
    /\ raw = <<"<doc>", "</chart>", "<doc>", "</doc>", "</doc>">>
    /\ Len(extractedContent) = 2
    /\ extractedContent[1]
          = [type |-> "doc", value |-> cleanContent(<<"</chart>", "<doc>">>)]
    /\ spans[1] = [from |-> 1, to |-> 4]
    /\ extractedContent[2].type = "text"

\* The position of the opening tag of the one region of a message of
\* KindMessages, the position of its closing tag, and its kind.
OpenAt == CHOOSE i \in DOMAIN raw : \E k \in ReplyKinds : raw[i] = OpenTag(k)

KindAt == CHOOSE k \in ReplyKinds : raw[OpenAt] = OpenTag(k)

CloseAt == CHOOSE j \in DOMAIN raw : raw[j] = CloseTag(KindAt)

\* C16: for each of the eight kinds, a message made of non-blank text, one
\* region of that kind (its content a JSON text for chart, card and map)
\* and non-blank text yields exactly three blocks: the text before, a
\* block of that kind for the region, the text after.
C16_TextKindText ==
    parsed =>
        /\ ~thrown
        /\ Len(extractedContent) = 3
        /\ extractedContent[1] = TextBlock(raw, 1, OpenAt - 1)
        /\ spans[1] = [from |-> 1, to |-> OpenAt - 1]
        /\ extractedContent[2].type = KindAt
        /\ spans[2] = [from |-> OpenAt, to |-> CloseAt]
        /\ extractedContent[3] = TextBlock(raw, CloseAt + 1, Len(raw))
        /\ spans[3] = [from |-> CloseAt + 1, to |-> Len(raw)]

\* C16 witness: text, a map region, text were parsed into three blocks.
C16_Witness ==
    /\ parsed
    /\ raw = <<"a", "<map>", "{}", "</map>", " ", "a">>
    /\ Len(extractedContent) = 3
    /\ extractedContent[2].type = "map"

Literal(p2) == [literal |-> p2]

\* C18: a doc or image block's value is the captured content taken
\* literally, not rendered as markup; a citations or table block's value
\* is the captured content rendered as markup.
C18_DocImageLiteral ==
    parsed =>
        \A b \in Tagged :
            /\ extractedContent[b].type \in {"doc", "image"} =>
                  extractedContent[b].value = Literal(SpanInner(b))
            /\ extractedContent[b].type \in {"citations", "table"} =>
                  extractedContent[b].value = cleanContent(SpanInner(b))

\* The fenced-code sub-patterns of c: a fence at f, word characters, a
\* newline at n, a body without fence, a fence at e.
FencePatterns(c) ==
    {x \in (DOMAIN c) \X (DOMAIN c) \X (DOMAIN c) :
        /\ x[1] < x[2] /\ x[2] < x[3]
        /\ c[x[1]] = Fence /\ c[x[2]] = "\n" /\ c[x[3]] = Fence
        /\ \A h \in (x[1] + 1)..(x[2] - 1) : IsWord(c[h])
        /\ \A h \in (x[2] + 1)..(x[3] - 1) : c[h] # Fence}

\* C19: a code region yields a code block; when its content holds a
\* fenced-code sub-pattern, the language is the language token of the
\* first one and the value is the rendering of its body; otherwise the
\* language is the default plain-text and the value is the rendering of
\* the whole content; <code></code> yields the default language and an
\* empty body.
C19_CodeFenceOrDefault ==
    parsed =>
        LET c == SubSeq(raw, 2, Len(raw) - 1)
            ps == FencePatterns(c)
        IN  /\ Len(extractedContent) = 1
            /\ extractedContent[1].type = "code"
            /\ IF ps = {}
               THEN /\ extractedContent[1].lang = <<"plain-text">>
                    /\ extractedContent[1].value = cleanContent(c)
               ELSE LET x == CHOOSE y \in ps : \A z \in ps : y[1] <= z[1]
                    IN  /\ extractedContent[1].lang
                              = SubSeq(c, x[1] + 1, x[2] - 1)
                        /\ extractedContent[1].value
                              = cleanContent(SubSeq(c, x[2] + 1, x[3] - 1))
            /\ raw = <<"<code>", "</code>">> =>
                  extractedContent[1]
                      = [type |-> "code", value |-> [html |-> <<>>],
                         lang |-> <<"plain-text">>]

\* C19 witness: a code region holding a fence with language a and body a
\* was parsed into a code block with that language and body.
C19_Witness ==
    /\ parsed
    /\ raw = <<"<code>", Fence, "a", "\n", "a", Fence, "</code>">>
    /\ extractedContent
          = <<[type |-> "code", value |-> [html |-> <<"a">>], lang |-> <<"a">>]>>

\* The positions of a token in the HumanMessage's text.
PositionsOf(tok) == {j \in DOMAIN humanText : humanText[j] = tok}

FirstOf(tok) == CHOOSE j \in PositionsOf(tok) : \A h \in PositionsOf(tok) : j <= h

LastOf(tok) == CHOOSE j \in PositionsOf(tok) : \A h \in PositionsOf(tok) : j >= h

\* An audio payload: its first '@'-separated segment is audio and a '#'
\* follows the first '@'.
IsAudioPayload ==
    /\ getFileType(humanText) = <<"audio">>
    /\ PositionsOf("@") # {}
    /\ \E j \in PositionsOf("#") : j > FirstOf("@")

\* C20: for an audio payload the transcript is everything between the
\* first '@' and the last '#' and the playback URL is everything after the
\* last '#', whatever the transcript and the URL contain.
C20_AudioSplit ==
    (humanMounted /\ IsAudioPayload) =>
        /\ textaudio = SubSeq(humanText, FirstOf("@") + 1, LastOf("#") - 1)
        /\ urlaudio
              = Some(SubSeq(humanText, LastOf("#") + 1, Len(humanText)))

\* The segment of the HumanMessage's text before its first '@', the whole
\* text when it has none.
FirstSegment ==
    IF PositionsOf("@") = {} THEN humanText
    ELSE SubSeq(humanText, 1, FirstOf("@") - 1)

\* C21 as stated: the text is shown as audio iff the segment before the
\* first '@' is audio, as a file iff it is file, and otherwise the whole
\* string is shown as literal text.
C21_ThreeWayLiteralText ==
    humanMounted =>
        /\ HumanView(humanText) = "audio" <=> FirstSegment = <<"audio">>
        /\ HumanView(humanText) = "file" <=> FirstSegment = <<"file">>
        /\ HumanView(humanText) = "text" =>
              messageHtml = [plain |-> humanText]

\* C21 amended: the dispatch is three-way on the segment before the first
\* '@'; in the text case the whole string is shown as it stands only when
\* it holds no newline and no markdown character, and is otherwise shown
\* rendered as markdown; an audio or file payload leaves the text refs as
\* they were created.
C21_ThreeWayTextOrMarkdown ==
    humanMounted =>
        /\ HumanView(humanText) \in {"audio", "file", "text"}
        /\ HumanView(humanText) = "audio" <=> FirstSegment = <<"audio">>
        /\ HumanView(humanText) = "file" <=> FirstSegment = <<"file">>
        /\ HumanView(humanText) = "text" =>
              IF PositionsOf("#") = {} /\ PositionsOf("\n") = {}
              THEN messageHtml = [plain |-> humanText] /\ ~isMarkdown
              ELSE messageHtml = [html |-> humanText] /\ isMarkdown
        /\ HumanView(humanText) # "text" =>
              messageHtml = [plain |-> <<>>] /\ ~isMarkdown

\* C21 witness: a text holding a markdown character and an '@' after a
\* segment that is neither audio nor file was shown as rendered markdown.
C21_Witness ==
    /\ humanMounted
    /\ humanText = <<"x", "@", "audio", "#">>
    /\ HumanView(humanText) = "text"
    /\ messageHtml = [html |-> humanText]

\* C22: for a payload file@<path> the name shown is the remainder without
\* its directory path and without its final extension: what lies after
\* the last '/' and before the last '.' that follows it.
C22_DisplayNameStripsPathAndExtension ==
    docName # Null =>
        LET rest == SubSeq(humanText, FirstOf("@") + 1, Len(humanText))
            slashes == {j \in DOMAIN rest : rest[j] = "/"}
            base == IF slashes = {} THEN rest
                    ELSE SubSeq(rest,
                                (CHOOSE j \in slashes : \A h \in slashes : j >= h) + 1,
                                Len(rest))
            dots == {j \in DOMAIN base : base[j] = "."}
            name == IF dots = {} THEN base
                    ELSE SubSeq(base, 1,
                                (CHOOSE j \in dots : \A h \in dots : j >= h) - 1)
        IN  docName = Some(name)

\* The chart blocks, and the payload in the region of one.
ChartBlocks == {b \in Tagged : extractedContent[b].type = "chart"}

PayloadOf(b) ==
    CHOOSE r \in ChartPayloads : ChartJsonText(r) = Trim(SpanInner(b))[1]

\* C23: a chart region yields a chart block carrying the variant, the
\* series data and the options of its payload, the options being the
\* empty mapping when the payload has none; the component rendering it is
\* the one of the variant when the variant is bar, pie or line, and the
\* bar component for every other variant.
C23_ChartBlockAndVariant ==
    parsed =>
        /\ ~thrown
        /\ Cardinality(ChartBlocks) = 1
        /\ \A b \in ChartBlocks :
              LET r == PayloadOf(b)
                  c == extractedContent[b]
              IN  /\ c.chartType = r.type
                  /\ c.data = r.data
                  /\ c.options = (IF r.options = Undefined THEN "{}"
                                  ELSE r.options)
                  /\ getChartComponent(c.chartType)
                        = (CASE r.type = "pie" -> "Pie"
                             [] r.type = "line" -> "Line"
                             [] OTHER -> "Bar")

\* A JavaScript number.
JsNumber(n) == [number |-> n]

\* C24: a vote submission carries the message id as a string and a rate
\* that is the number 1 for an up-vote and the number -1 for a down-vote.
C24_VotePayload ==
    \A k \in DOMAIN voteCalls :
        \E id \in DOMAIN selectedVote :
            /\ voteCalls[k].id = JsString(id)
            /\ voteCalls[k].rate
                  = JsNumber(IF selectedVote[id] THEN 1 ELSE 0 - 1)

\* C25: there is no request queue and no retry: a step issues at most one
\* network request and only when it is a user's send; the arrival of a
\* reply or of a failure, an upload and a vote issue none; no request is
\* issued twice; so the requests issued never outnumber the user's
\* actions (sends and uploads, and votes).
C25_NoQueueNoRetry ==
    [][ /\ Len(sent') <= Len(sent) + 1
        /\ SubSeq(sent', 1, Len(sent)) = sent
        /\ Len(sent') > Len(sent) =>
              /\ lastOp'.op = "send"
              /\ nextReq' = nextReq + 1
              /\ sent'[Len(sent')].req = nextReq'
        /\ inflight' \subseteq inflight \cup {sent'[k] : k \in (Len(sent) + 1)..Len(sent')}
        /\ \A j, k \in DOMAIN sent' : j # k => sent'[j].req # sent'[k].req
        /\ Len(sent') <= nextReq'
        /\ Len(sent') <= nextReq' + Len(voteCalls') ]_vars

\* C25 witness: after two sends and an upload, one request has failed,
\* one has been answered and a vote was cast, and only the two requests of
\* the sends have been issued.
C25_Witness ==
    /\ nextReq = 3
    /\ Len(sent) = 2
    /\ failedUploads # {}
    /\ inflight = {}
    /\ lastOp.op = "fail"
    /\ Len(voteCalls) = 1

\* The placeholder appended for user action r is in the list.
Pending(r) ==
    \E i \in DOMAIN messages : messages[i].isLoading /\ messages[i].uid = r

\* C26: every placeholder appended for a send or an upload is eventually
\* gone from the list, replaced by the reply or by an error block, when
\* every request eventually settles.
C26_PlaceholderEventuallyReplaced ==
    \A r \in 1..MaxRequests : Pending(r) ~> ~Pending(r)

\* C27: the input box never sends an empty message: every chat request's
\* query is non-empty and has no whitespace at either end, it is the
\* trimmed text of the box, and the box is empty right after a send.
C27_QueryTrimmedNonEmpty ==
    /\ \A k \in DOMAIN sent :
          LET q == sent[k].data.query
          IN  /\ q # <<>>
              /\ ~IsSpace(q[1])
              /\ ~IsSpace(q[Len(q)])
    /\ lastOp.op = "send" => messageText = <<>>

\* C27 witness: the text " a" was typed and sent: the request's query is
\* "a" and the box is empty.
C27_Witness ==
    /\ lastOp.op = "send"
    /\ Len(sent) = 2
    /\ sent[1].data.query = <<"a", " ", "a">>
    /\ sent[2].data.query = <<"a">>
    /\ messageText = <<>>

\* C28: once the view is mounted the message list is never empty, and a
\* message marked isFirst is a seed greeting: no reply, error block,
\* placeholder or user message is ever marked isFirst.
C28_OnlyGreetingIsFirst ==
    /\ mounted => messages # <<>>
    /\ \A i \in DOMAIN messages :
          messages[i].isFirst =>
              /\ IsGreeting(messages[i])
              /\ ~messages[i].isUser
              /\ ~messages[i].isLoading
              /\ ~messages[i].isError

\* C28 witness: a late reply has taken the place of the greeting put by a
\* clear; it is the only message of the list and is not marked isFirst.
C28_Witness ==
    /\ mounted
    /\ clears > 0
    /\ Len(messages) = 1
    /\ messages[1].text = ResponseText
    /\ ~messages[1].isFirst

====
